---- MODULE Spec2Model ----
(***************************************************************************)
(* Harris corner response and non maxima suppression                       *)
(* (torchgeometry/feature/harris.py).                                      *)
(*                                                                         *)
(* Tensors are nested tuples: a rank-4 tensor t is indexed t[b][c][i][j].   *)
(* Real numbers are exact fixed-point integers:                            *)
(*   - pixels and Sobel gradients are integers;                            *)
(*   - the blurred products dx2, dy2, dxy and trace_m count hundredths     *)
(*     (the 3x3 Gaussian is the outer product of <<3,4,3>>/10);            *)
(*   - k counts hundredths (k = 4 is 0.04);                                *)
(*   - det_m counts 1e-4 and scores count 1e-6, so the clamp floor 1e-6     *)
(*     is the integer 1;                                                   *)
(*   - the normalised output is a reduced fraction <<n, d>>, d = 0 for a   *)
(*     non-finite quotient (<<0,0>> is NaN).                               *)
(* A call is one behaviour: Init picks the entry point and its arguments,  *)
(* and each action is one statement group of the forward method, writing   *)
(* the locals it assigns.                                                  *)
(***************************************************************************)
EXTENDS Integers, Sequences, FiniteSets, TLC

VARIABLES call, pc, err,
          dx, dy, dx2, dy2, dxy, det_m, trace_m, scores_raw, scores_clamped,
          nms_in, x_max, x_mask, nms_out, nms_twice, scores_max, output

vars == <<call, pc, err, dx, dy, dx2, dy2, dxy, det_m, trace_m, scores_raw,
          scores_clamped, nms_in, x_max, x_mask, nms_out, nms_twice,
          scores_max, output>>

\* ------------------------------------------------------------------ bounds
MaxPixels == 6        \* a CornerHarris input holds at most this many pixels
MaxSlices == 2        \* ... in at most this many [batch, channel] slices
MaxMapPixels == 4     \* a score map given to non_maxima_suppression2d
MaxWindow == 3        \* largest suppression window side tried

\* ------------------------------------------------------- program constants
ClampMin == 1         \* torch.clamp(scores, min=1e-6), in units of 1e-6
HarrisWindow == 3     \* NonMaximaSuppression2d(kernel_size=(3, 3))

None == << >>         \* a local that has not been computed

\* ------------------------------------------------------------ tensor tools
Max2(a, b) == IF a >= b THEN a ELSE b
Abs(a) == IF a < 0 THEN -a ELSE a

RECURSIVE GCD(_, _)
GCD(a, b) == IF b = 0 THEN a ELSE GCD(b, a % b)

SetMax(S) == CHOOSE m \in S : \A y \in S : y <= m

\* x.shape of a rank-4 tensor
Shape4(t) == <<Len(t), Len(t[1]), Len(t[1][1]), Len(t[1][1][1])>>

\* the elementwise t * u, t + u and t - u of two tensors of one shape
Mul4(t, u) ==
  [b \in 1..Len(t) |-> [c \in 1..Len(t[b]) |->
    [i \in 1..Len(t[b][c]) |-> [j \in 1..Len(t[b][c][i]) |->
      t[b][c][i][j] * u[b][c][i][j]]]]]

Add4(t, u) ==
  [b \in 1..Len(t) |-> [c \in 1..Len(t[b]) |->
    [i \in 1..Len(t[b][c]) |-> [j \in 1..Len(t[b][c][i]) |->
      t[b][c][i][j] + u[b][c][i][j]]]]]

Sub4(t, u) ==
  [b \in 1..Len(t) |-> [c \in 1..Len(t[b]) |->
    [i \in 1..Len(t[b][c]) |-> [j \in 1..Len(t[b][c][i]) |->
      t[b][c][i][j] - u[b][c][i][j]]]]]

Values2(m) == {m[i][j] : i \in 1..Len(m), j \in 1..Len(m[1])}
Values4(t) == UNION {Values2(t[b][c]) : b \in 1..Len(t), c \in 1..Len(t[1])}

\* ----------------------------------------------- torchgeometry.image (3x3)
SobelX == << <<-1, 0, 1>>, <<-2, 0, 2>>, <<-1, 0, 1>> >>
SobelY == << <<-1, -2, -1>>, <<0, 0, 0>>, <<1, 2, 1>> >>
Gauss1d == <<3, 4, 3>>
Gauss2d == [a \in 1..3 |-> [b \in 1..3 |-> Gauss1d[a] * Gauss1d[b]]]

\* the pixel at (i, j), 0 outside the image (zero padding of the convolution)
At0(m, i, j) ==
  IF i >= 1 /\ i <= Len(m) /\ j >= 1 /\ j <= Len(m[1]) THEN m[i][j] ELSE 0

Tap(m, ker, i, j, a) ==
  ker[a][1] * At0(m, i + a - 2, j - 1) + ker[a][2] * At0(m, i + a - 2, j)
    + ker[a][3] * At0(m, i + a - 2, j + 1)

Filter3x3(m, ker) ==
  [i \in 1..Len(m) |-> [j \in 1..Len(m[1]) |->
    Tap(m, ker, i, j, 1) + Tap(m, ker, i, j, 2) + Tap(m, ker, i, j, 3)]]

SliceDx(m) == Filter3x3(m, SobelX)
SliceDy(m) == Filter3x3(m, SobelY)
SliceBlur(m) == Filter3x3(m, Gauss2d)

\* gradients[:, :, 0] and gradients[:, :, 1]
spatial_gradient(input) ==
  [dx |-> [b \in 1..Len(input) |-> [c \in 1..Len(input[b]) |->
             SliceDx(input[b][c])]],
   dy |-> [b \in 1..Len(input) |-> [c \in 1..Len(input[b]) |->
             SliceDy(input[b][c])]]]

\* gaussian_blur(x, (3, 3), (1., 1.)); the result counts 1/100 of x's unit
gaussian_blur(x) ==
  [b \in 1..Len(x) |-> [c \in 1..Len(x[b]) |-> SliceBlur(x[b][c])]]

\* ------------------------------------------------ NonMaximaSuppression2d
\* a faulty variant: pad(x) = x // 2 - 1
compute_zero_padding2d_short(kernel_size) ==
  <<kernel_size[1] \div 2 - 1, kernel_size[2] \div 2 - 1>>

\* pad(x) = (x - 1) // 2 on each axis
compute_zero_padding2d(kernel_size) ==
  <<(kernel_size[1] - 1) \div 2, (kernel_size[2] - 1) \div 2>>

\* output extent of a stride 1 pooling along one axis
PoolExtent(n, k, p) == n + 2 * p - k + 1

\* the window of output position i along one axis, clipped to the input:
\* nn.MaxPool2d pads implicitly with -infinity, so positions outside the
\* input never win the reduction
WindowOf(i, n, k, p) == {y \in (i - p)..(i - p + k - 1) : y >= 1 /\ y <= n}

SliceMaxPool(m, kernel_size, padding) ==
  [i \in 1..PoolExtent(Len(m), kernel_size[1], padding[1]) |->
    [j \in 1..PoolExtent(Len(m[1]), kernel_size[2], padding[2]) |->
      SetMax({m[y][x] : y \in WindowOf(i, Len(m), kernel_size[1], padding[1]),
                        x \in WindowOf(j, Len(m[1]), kernel_size[2], padding[2])})]]

\* nn.MaxPool2d(kernel_size, stride=1, padding)(x); it raises when the
\* output would be empty
MaxPool2dFails(x, kernel_size, padding) ==
  \/ PoolExtent(Len(x[1][1]), kernel_size[1], padding[1]) < 1
  \/ PoolExtent(Len(x[1][1][1]), kernel_size[2], padding[2]) < 1

MaxPool2d(x, kernel_size, padding) ==
  [b \in 1..Len(x) |-> [c \in 1..Len(x[b]) |->
    SliceMaxPool(x[b][c], kernel_size, padding)]]

\* torch broadcasting of two extents, and the index it reads
Broadcastable(n, m) == n = m \/ n = 1 \/ m = 1
BIdx(n, i) == IF n = 1 THEN 1 ELSE i

BroadcastFails(x, y) ==
  \/ ~Broadcastable(Len(x[1][1]), Len(y[1][1]))
  \/ ~Broadcastable(Len(x[1][1][1]), Len(y[1][1][1]))

\* the extents of the broadcast of slice [b, c] of x and y, and the cell of
\* x that cell (i, j) of the broadcast reads
BRows(x, y, b, c) == Max2(Len(x[b][c]), Len(y[b][c]))
BCols(x, y, b, c) == Max2(Len(x[b][c][1]), Len(y[b][c][1]))
BAt(x, b, c, i, j) == x[b][c][BIdx(Len(x[b][c]), i)][BIdx(Len(x[b][c][1]), j)]

\* a faulty variant: only what exceeds the local maximum is kept
MaskOfStrict(a, b) == IF a > b THEN 1 ELSE 0

\* torch.where(x == x_max, torch.ones_like(x), torch.zeros_like(x))
MaskOf(a, b) == IF a = b THEN 1 ELSE 0
LocalMaxMask(x, xmax) ==
  [b \in 1..Len(x) |-> [c \in 1..Len(x[b]) |->
    [i \in 1..BRows(x, xmax, b, c) |-> [j \in 1..BCols(x, xmax, b, c) |->
      MaskOf(BAt(x, b, c, i, j), BAt(xmax, b, c, i, j))]]]]

\* a faulty variant: the mask itself is returned
ApplyMaskOnly(x, mask) == mask

\* x * x_mask
ApplyMask(x, mask) ==
  [b \in 1..Len(x) |-> [c \in 1..Len(x[b]) |->
    [i \in 1..BRows(x, mask, b, c) |-> [j \in 1..BCols(x, mask, b, c) |->
      BAt(x, b, c, i, j) * BAt(mask, b, c, i, j)]]]]

\* NonMaximaSuppression2d(kernel_size).forward(x) on a rank-4 x: the locals
\* it computes, and the error it raises if any
NonMaximaSuppression2d(x, kernel_size) ==
  LET padding == compute_zero_padding2d(kernel_size) IN
  IF MaxPool2dFails(x, kernel_size, padding)
  THEN [err |-> "RuntimeError", x_max |-> None, x_mask |-> None, out |-> None]
  ELSE LET xmax == MaxPool2d(x, kernel_size, padding) IN
       IF BroadcastFails(x, xmax)
       THEN [err |-> "RuntimeError", x_max |-> xmax, x_mask |-> None,
             out |-> None]
       ELSE LET mask == LocalMaxMask(x, xmax) IN
            [err |-> "none", x_max |-> xmax, x_mask |-> mask,
             out |-> ApplyMask(x, mask)]

\* ------------------------------------------------------------ CornerHarris
\* det_m = dx2 * dy2 - dxy * dxy, in units of 1e-4
det_of(sxx, syy, sxy) == Sub4(Mul4(sxx, syy), Mul4(sxy, sxy))

\* trace_m = dx2 + dy2, in hundredths
trace_of(sxx, syy) == Add4(sxx, syy)

\* scores = det_m - self.k * trace_m ** 2, in units of 1e-6 (k in hundredths)
response(det, trace, k) ==
  [b \in 1..Len(det) |-> [c \in 1..Len(det[b]) |->
    [i \in 1..Len(det[b][c]) |-> [j \in 1..Len(det[b][c][i]) |->
      100 * det[b][c][i][j] - k * trace[b][c][i][j] * trace[b][c][i][j]]]]]

\* faulty variants: the bound used as a ceiling, no clamp, a floor of -1e-6
clamp_upper(scores, min) ==
  [b \in 1..Len(scores) |-> [c \in 1..Len(scores[b]) |->
    [i \in 1..Len(scores[b][c]) |-> [j \in 1..Len(scores[b][c][i]) |->
      IF scores[b][c][i][j] <= min THEN scores[b][c][i][j] ELSE min]]]]

clamp_none(scores, min) == scores

clamp_negative(scores, min) ==
  [b \in 1..Len(scores) |-> [c \in 1..Len(scores[b]) |->
    [i \in 1..Len(scores[b][c]) |-> [j \in 1..Len(scores[b][c][i]) |->
      Max2(scores[b][c][i][j], -min)]]]]

\* torch.clamp(scores, min=1e-6)
clamp(scores, min) ==
  [b \in 1..Len(scores) |-> [c \in 1..Len(scores[b]) |->
    [i \in 1..Len(scores[b][c]) |-> [j \in 1..Len(scores[b][c][i]) |->
      Max2(scores[b][c][i][j], min)]]]]

\* a faulty variant: one maximum for the whole batch
adaptive_max_pool2d_batch(scores) ==
  [b \in 1..Len(scores) |-> [c \in 1..Len(scores[b]) |->
    << <<SetMax(Values4(scores))>> >>]]

\* F.adaptive_max_pool2d(scores, output_size=1): shape (B, C, 1, 1)
adaptive_max_pool2d(scores) ==
  [b \in 1..Len(scores) |-> [c \in 1..Len(scores[b]) |->
    << <<SetMax(Values2(scores[b][c]))>> >>]]

\* a / b as a reduced fraction; IEEE division by zero gives inf or nan
Quotient(a, b) ==
  IF b = 0 THEN (IF a = 0 THEN <<0, 0>> ELSE IF a > 0 THEN <<1, 0>> ELSE <<-1, 0>>)
  ELSE LET g == GCD(Abs(a), Abs(b))
           s == IF b < 0 THEN -1 ELSE 1
       IN <<(s * a) \div g, (s * b) \div g>>

\* scores / scores_max
normalize(scores, smax) ==
  [b \in 1..Len(scores) |-> [c \in 1..Len(scores[b]) |->
    [i \in 1..BRows(scores, smax, b, c) |->
      [j \in 1..BCols(scores, smax, b, c) |->
        Quotient(BAt(scores, b, c, i, j), BAt(smax, b, c, i, j))]]]]

\* a faulty variant: the type is not looked at
is_tensor_any(input) == TRUE

is_tensor(input) == input.is_tensor
rank(input) == Len(input.shape)

\* ------------------------------------------------------------------ inputs
Pixels == {0, 1}
KValues == {-100, 0, 4, 5, 6, 100}   \* k in hundredths: -1, 0, 0.04 .. 0.06, 1
Conventional == {4, 5, 6}            \* the empirical range [0.04, 0.06]

TensorsOf(shape, V) ==
  [1..shape[1] -> [1..shape[2] -> [1..shape[3] -> [1..shape[4] -> V]]]]

Sides(n) == (1..n) \X (1..n) \X (1..n) \X (1..n)

HarrisShapes ==
  {s \in Sides(MaxPixels) :
     s[1] * s[2] <= MaxSlices /\ s[1] * s[2] * s[3] * s[4] <= MaxPixels}

\* the docstring example: a 5x5 block of ones on a zero border, as 1x1x7x7
Example7x7 ==
  << << [i \in 1..7 |-> [j \in 1..7 |->
          IF i >= 2 /\ i <= 6 /\ j >= 2 /\ j <= 6 THEN 1 ELSE 0]] >> >>

Zeros(shape) ==
  [b \in 1..shape[1] |-> [c \in 1..shape[2] |->
    [i \in 1..shape[3] |-> [j \in 1..shape[4] |-> 0]]]]

Tensor(t) == [is_tensor |-> TRUE, shape |-> Shape4(t), data |-> t]

\* a torch tensor of rank 3 (CxHxW), of rank 5, and arrays that are no
\* torch tensors, whatever their rank
Malformed ==
  {[is_tensor |-> TRUE, shape |-> <<1, 2, 2>>,
    data |-> << << <<0, 1>>, <<1, 1>> >> >>],
   [is_tensor |-> TRUE, shape |-> <<1, 7, 7>>, data |-> Example7x7[1]],
   [is_tensor |-> TRUE, shape |-> <<1, 1, 1, 1, 1>>,
    data |-> << << << << <<1>> >> >> >> >>],
   [is_tensor |-> FALSE, shape |-> <<1, 2, 2>>,
    data |-> << << <<0, 1>>, <<1, 1>> >> >>],
   [is_tensor |-> FALSE, shape |-> <<1, 1, 7, 7>>, data |-> Example7x7],
   [is_tensor |-> FALSE, shape |-> << >>, data |-> << >>]}

\* beyond the bounded shapes: every 3x3 image and every pair of 2x2 images
LargerShapes == {<<1, 1, 3, 3>>, <<2, 1, 2, 2>>, <<1, 2, 2, 2>>}

\* all-zero inputs of many sizes
ZeroShapes == (1..2) \X (1..2) \X (1..4) \X (1..5)

HarrisInputs ==
  {Tensor(t) : t \in UNION {TensorsOf(s, Pixels) :
                              s \in HarrisShapes \cup LargerShapes}}
    \cup {Tensor(Example7x7)}
    \cup {Tensor(Zeros(s)) : s \in ZeroShapes}
    \cup Malformed

MapShapes ==
  {s \in Sides(MaxMapPixels) :
     s[1] = 1 /\ s[2] = 1 /\ s[3] * s[4] <= MaxMapPixels}

MapValues == {-1, 0, 1, 2}

\* beyond the bounded shapes: 3x3 maps of zeros and ones, 2x3 maps with a
\* negative value, and a map of rank 2
MapInputs ==
  {Tensor(t) : t \in UNION {TensorsOf(s, MapValues) : s \in MapShapes}}
    \cup {Tensor(t) : t \in TensorsOf(<<1, 1, 3, 3>>, {0, 1})}
    \cup {Tensor(t) : t \in TensorsOf(<<1, 1, 2, 3>>, {-1, 0, 1})}
    \cup {[is_tensor |-> TRUE, shape |-> <<2, 2>>, data |-> <<<<0, 1>>, <<1, 1>>>>]}

Windows == (1..MaxWindow) \X (1..MaxWindow)

\* ------------------------------------------------------------------- state
Locals ==
  <<dx, dy, dx2, dy2, dxy, det_m, trace_m, scores_raw, scores_clamped,
    nms_in, x_max, x_mask, nms_out, nms_twice, scores_max, output>>

NoLocals ==
  /\ dx = None /\ dy = None /\ dx2 = None /\ dy2 = None /\ dxy = None
  /\ det_m = None /\ trace_m = None /\ scores_raw = None
  /\ scores_clamped = None /\ nms_in = None /\ x_max = None /\ x_mask = None
  /\ nms_out = None /\ nms_twice = None /\ scores_max = None /\ output = None

\* corner_harris(input, k) is called
InitHarris ==
  /\ call \in {[fn |-> "corner_harris", input |-> x, k |-> k,
                kernel_size |-> <<HarrisWindow, HarrisWindow>>] :
               x \in HarrisInputs, k \in KValues}
  /\ pc = "call" /\ err = "none" /\ NoLocals

\* non_maxima_suppression2d(input, kernel_size) is called
InitNms ==
  /\ call \in {[fn |-> "non_maxima_suppression2d", input |-> x, k |-> 0,
                kernel_size |-> w] : x \in MapInputs, w \in Windows}
  /\ pc = "call" /\ err = "none" /\ NoLocals

\* ----------------------------------------------------- CornerHarris.forward
\* if not torch.is_tensor(input): raise TypeError
HarrisCheckType ==
  /\ call.fn = "corner_harris" /\ pc = "call"
  /\ IF is_tensor(call.input)
     THEN pc' = "type_checked" /\ err' = err
     ELSE pc' = "done" /\ err' = "TypeError"
  /\ UNCHANGED <<call, Locals>>

\* if not len(input.shape) == 4: raise ValueError
HarrisCheckShape ==
  /\ call.fn = "corner_harris" /\ pc = "type_checked"
  /\ IF rank(call.input) = 4
     THEN pc' = "shape_checked" /\ err' = err
     ELSE pc' = "done" /\ err' = "ValueError"
  /\ UNCHANGED <<call, Locals>>

\* gradients = spatial_gradient(input); dx, dy = gradients[:, :, 0 / 1]
HarrisGradients ==
  /\ call.fn = "corner_harris" /\ pc = "shape_checked"
  /\ LET gradients == spatial_gradient(call.input.data) IN
     dx' = gradients.dx /\ dy' = gradients.dy
  /\ pc' = "gradients"
  /\ UNCHANGED <<call, err, dx2, dy2, dxy, det_m, trace_m, scores_raw,
                 scores_clamped, nms_in, x_max, x_mask, nms_out, nms_twice,
                 scores_max, output>>

\* dx2 = g(dx * dx); dy2 = g(dy * dy); dxy = g(dx * dy)
HarrisStructureTensor ==
  /\ call.fn = "corner_harris" /\ pc = "gradients"
  /\ dx2' = gaussian_blur(Mul4(dx, dx))
  /\ dy2' = gaussian_blur(Mul4(dy, dy))
  /\ dxy' = gaussian_blur(Mul4(dx, dy))
  /\ pc' = "tensor"
  /\ UNCHANGED <<call, err, dx, dy, det_m, trace_m, scores_raw,
                 scores_clamped, nms_in, x_max, x_mask, nms_out, nms_twice,
                 scores_max, output>>

\* det_m, trace_m and scores = det_m - self.k * trace_m ** 2
HarrisResponse ==
  /\ call.fn = "corner_harris" /\ pc = "tensor"
  /\ det_m' = det_of(dx2, dy2, dxy)
  /\ trace_m' = trace_of(dx2, dy2)
  /\ scores_raw' = response(det_of(dx2, dy2, dxy), trace_of(dx2, dy2), call.k)
  /\ pc' = "response"
  /\ UNCHANGED <<call, err, dx, dy, dx2, dy2, dxy, scores_clamped, nms_in,
                 x_max, x_mask, nms_out, nms_twice, scores_max, output>>

\* scores = torch.clamp(scores, min=1e-6)
HarrisClamp ==
  /\ call.fn = "corner_harris" /\ pc = "response"
  /\ scores_clamped' = clamp(scores_raw, ClampMin)
  /\ pc' = "clamped"
  /\ UNCHANGED <<call, err, dx, dy, dx2, dy2, dxy, det_m, trace_m, scores_raw,
                 nms_in, x_max, x_mask, nms_out, nms_twice, scores_max,
                 output>>

\* scores = NonMaximaSuppression2d(kernel_size=(3, 3))(scores)
HarrisSuppress ==
  /\ call.fn = "corner_harris" /\ pc = "clamped"
  /\ LET nms == NonMaximaSuppression2d(scores_clamped,
                                       <<HarrisWindow, HarrisWindow>>) IN
     /\ nms_in' = scores_clamped
     /\ x_max' = nms.x_max /\ x_mask' = nms.x_mask /\ nms_out' = nms.out
     /\ err' = nms.err
     /\ pc' = IF nms.err = "none" THEN "suppressed" ELSE "done"
  /\ UNCHANGED <<call, dx, dy, dx2, dy2, dxy, det_m, trace_m, scores_raw,
                 scores_clamped, nms_twice, scores_max, output>>

\* scores_max = F.adaptive_max_pool2d(scores, 1); return scores / scores_max
HarrisNormalize ==
  /\ call.fn = "corner_harris" /\ pc = "suppressed"
  /\ scores_max' = adaptive_max_pool2d(nms_out)
  /\ output' = normalize(nms_out, adaptive_max_pool2d(nms_out))
  /\ pc' = "done"
  /\ UNCHANGED <<call, err, dx, dy, dx2, dy2, dxy, det_m, trace_m, scores_raw,
                 scores_clamped, nms_in, x_max, x_mask, nms_out, nms_twice>>

NextHarris ==
  \/ HarrisCheckType \/ HarrisCheckShape \/ HarrisGradients
  \/ HarrisStructureTensor \/ HarrisResponse \/ HarrisClamp
  \/ HarrisSuppress \/ HarrisNormalize

SpecHarris == InitHarris /\ [][NextHarris]_vars

\* ------------------------------------------- NonMaximaSuppression2d.forward
\* assert len(x.shape) == 4
NmsAssert ==
  /\ call.fn = "non_maxima_suppression2d" /\ pc = "call"
  /\ rank(call.input) # 4
  /\ pc' = "done" /\ err' = "AssertionError"
  /\ UNCHANGED <<call, Locals>>

NmsForward ==
  /\ call.fn = "non_maxima_suppression2d" /\ pc = "call"
  /\ rank(call.input) = 4
  /\ LET nms == NonMaximaSuppression2d(call.input.data, call.kernel_size) IN
     /\ nms_in' = call.input.data
     /\ x_max' = nms.x_max /\ x_mask' = nms.x_mask /\ nms_out' = nms.out
     /\ err' = nms.err
  /\ pc' = "done"
  /\ UNCHANGED <<call, dx, dy, dx2, dy2, dxy, det_m, trace_m, scores_raw,
                 scores_clamped, nms_twice, scores_max, output>>

\* the caller passes the returned map through the suppression once more;
\* a first call that raised has returned nothing to pass on
NmsAgain ==
  /\ call.fn = "non_maxima_suppression2d" /\ pc = "done"
  /\ err # "AssertionError"
  /\ IF err = "none"
     THEN LET nms == NonMaximaSuppression2d(nms_out, call.kernel_size) IN
          /\ nms_twice' = nms.out /\ err' = nms.err
     ELSE UNCHANGED <<nms_twice, err>>
  /\ pc' = "twice"
  /\ UNCHANGED <<call, dx, dy, dx2, dy2, dxy, det_m, trace_m, scores_raw,
                 scores_clamped, nms_in, x_max, x_mask, nms_out, scores_max,
                 output>>

NextNms == NmsAssert \/ NmsForward \/ NmsAgain

SpecNms == InitNms /\ [][NextNms]_vars

\* either entry point
Init == InitHarris \/ InitNms
Next == NextHarris \/ NextNms
Spec == Init /\ [][Next]_vars

\* ------------------------------------------------------------ properties
Harris == call.fn = "corner_harris"
Nms == call.fn = "non_maxima_suppression2d"
WellFormed == call.input.is_tensor /\ Len(call.input.shape) = 4
HarrisDone == Harris /\ pc = "done" /\ err = "none"

Zero == <<0, 1>>
One == <<1, 1>>

Slices(t) == {<<b, c>> : b \in 1..Len(t), c \in 1..Len(t[1])}
Cells(m) == {<<i, j>> : i \in 1..Len(m), j \in 1..Len(m[1])}
SliceMax(m) == SetMax(Values2(m))
OnBorder(m, p) == p[1] = 1 \/ p[1] = Len(m) \/ p[2] = 1 \/ p[2] = Len(m[1])

\* the in-bounds cells of the 3x3 window around p
Around(m, p) ==
  {q \in Cells(m) : Abs(q[1] - p[1]) <= 1 /\ Abs(q[2] - p[2]) <= 1}

\* C1: every value of the response is 0 or in (0, 1]; in every slice the
\* maximum of the clamped scores survives the suppression, so the divisor
\* is not 0, and every cell holding the slice's maximum suppressed score
\* is exactly 1
ResponseRange ==
  HarrisDone =>
    \A s \in Slices(output) :
      LET out == output[s[1]][s[2]]
          sup == nms_out[s[1]][s[2]]
          cl == scores_clamped[s[1]][s[2]]
          m == scores_max[s[1]][s[2]][1][1]
      IN /\ m # 0
         /\ m = SliceMax(sup)
         /\ \A p \in Cells(out) :
              LET q == out[p[1]][p[2]] IN
              /\ q = Zero \/ (q[1] > 0 /\ q[2] > 0 /\ q[1] <= q[2])
              /\ cl[p[1]][p[2]] = SliceMax(cl) => sup[p[1]][p[2]] = SliceMax(cl)
              /\ sup[p[1]][p[2]] = m => q = One
         /\ \E p \in Cells(out) : out[p[1]][p[2]] = One

\* a response holding a 0, a 1 and a value strictly between them
ResponseRangeWitness ==
  /\ HarrisDone
  /\ \E s \in Slices(output) :
       LET out == output[s[1]][s[2]] IN
       /\ \E p \in Cells(out) : out[p[1]][p[2]] = Zero
       /\ \E p \in Cells(out) : out[p[1]][p[2]] = One
       /\ \E p \in Cells(out) :
            out[p[1]][p[2]][1] > 0 /\ out[p[1]][p[2]][1] < out[p[1]][p[2]][2]

\* C5: a non-tensor input ends in TypeError and a tensor of rank other than
\* 4 in ValueError, the type being decided first, and nothing has been
\* computed when either is raised
FailFast ==
  Harris =>
    /\ (pc = "done" /\ ~call.input.is_tensor) => err = "TypeError"
    /\ (pc = "done" /\ call.input.is_tensor /\ Len(call.input.shape) # 4)
         => err = "ValueError"
    /\ (pc = "done" /\ WellFormed) => err = "none"
    /\ err # "none" => NoLocals
    /\ ~WellFormed => NoLocals

\* a rank-3 array that is no tensor was refused for its type
FailFastWitness ==
  /\ Harris /\ pc = "done" /\ err = "TypeError"
  /\ Len(call.input.shape) = 3 /\ NoLocals

\* C6: whatever k, the map handed to the suppression is the clamped map:
\* a score below 1e-6 became exactly 1e-6, any other score is unchanged,
\* and no k makes a well-formed call fail
ClampFloor ==
  /\ (Harris /\ pc = "done" /\ WellFormed) => err = "none"
  /\ (Harris /\ nms_in # None) =>
       /\ nms_in = scores_clamped
       /\ \A s \in Slices(nms_in) : \A p \in Cells(nms_in[s[1]][s[2]]) :
            LET raw == scores_raw[s[1]][s[2]][p[1]][p[2]]
                v == nms_in[s[1]][s[2]][p[1]][p[2]]
            IN /\ v >= ClampMin
               /\ raw < ClampMin => v = ClampMin
               /\ raw >= ClampMin => v = raw

\* a negative k, with scores on both sides of the floor
ClampFloorWitness ==
  /\ Harris /\ nms_in # None /\ call.k < 0
  /\ \E s \in Slices(nms_in) :
       /\ \E p \in Cells(nms_in[s[1]][s[2]]) :
            scores_raw[s[1]][s[2]][p[1]][p[2]] < ClampMin
       /\ \E p \in Cells(nms_in[s[1]][s[2]]) :
            scores_raw[s[1]][s[2]][p[1]][p[2]] > ClampMin

AllCells(t, v) == \A s \in Slices(t) : \A p \in Cells(t[s[1]][s[2]]) :
                    t[s[1]][s[2]][p[1]][p[2]] = v

\* C7: on an all-zero input the gradients, det_m and trace_m are zero, the
\* clamped score is 1e-6 everywhere, the mask is 1 everywhere and the
\* response is 1 everywhere
FlatInput ==
  (Harris /\ WellFormed /\ pc = "done" /\ AllCells(call.input.data, 0)) =>
    /\ err = "none"
    /\ AllCells(dx, 0) /\ AllCells(dy, 0)
    /\ AllCells(det_m, 0) /\ AllCells(trace_m, 0)
    /\ AllCells(scores_clamped, ClampMin)
    /\ AllCells(x_mask, 1)
    /\ AllCells(output, One)
    /\ Shape4(output) = call.input.shape

\* an all-zero batch of four 4x5 slices, k = 1
FlatInputWitness ==
  /\ Harris /\ WellFormed /\ pc = "done" /\ call.k = 100
  /\ call.input.shape = <<2, 2, 4, 5>> /\ AllCells(call.input.data, 0)

\* a slice as a batch of its own
Solo(m) == << <<m>> >>

\* C8: every stage maps slice [b, c] of what it reads to slice [b, c] of
\* what it writes, as if the slice were a batch of its own: the response
\* of a slice is a function of that slice of the input and of k alone
SliceLocal ==
  HarrisDone =>
    \A s \in Slices(output) :
      LET b == s[1]
          c == s[2]
          g == spatial_gradient(Solo(call.input.data[b][c]))
          gx == Solo(dx[b][c])
          gy == Solo(dy[b][c])
      IN /\ dx[b][c] = g.dx[1][1]
         /\ dy[b][c] = g.dy[1][1]
         /\ dx2[b][c] = gaussian_blur(Mul4(gx, gx))[1][1]
         /\ dy2[b][c] = gaussian_blur(Mul4(gy, gy))[1][1]
         /\ dxy[b][c] = gaussian_blur(Mul4(gx, gy))[1][1]
         /\ det_m[b][c] =
              det_of(Solo(dx2[b][c]), Solo(dy2[b][c]), Solo(dxy[b][c]))[1][1]
         /\ trace_m[b][c] = trace_of(Solo(dx2[b][c]), Solo(dy2[b][c]))[1][1]
         /\ scores_raw[b][c] =
              response(Solo(det_m[b][c]), Solo(trace_m[b][c]), call.k)[1][1]
         /\ scores_clamped[b][c] = clamp(Solo(scores_raw[b][c]), ClampMin)[1][1]
         /\ nms_in[b][c] = scores_clamped[b][c]
         /\ nms_out[b][c] =
              NonMaximaSuppression2d(Solo(nms_in[b][c]),
                                     <<HarrisWindow, HarrisWindow>>).out[1][1]
         /\ scores_max[b][c] = adaptive_max_pool2d(Solo(nms_out[b][c]))[1][1]
         /\ output[b][c] =
              normalize(Solo(nms_out[b][c]), Solo(scores_max[b][c]))[1][1]

\* a batch of two slices with different inputs and different divisors
SliceLocalWitness ==
  /\ HarrisDone
  /\ \E s \in Slices(output) : \E t \in Slices(output) :
       /\ call.input.data[s[1]][s[2]] # call.input.data[t[1]][t[2]]
       /\ scores_max[s[1]][s[2]] # scores_max[t[1]][t[2]]
       /\ \E p \in Cells(output[s[1]][s[2]]) :
            output[s[1]][s[2]][p[1]][p[2]] = Zero

ExampleCalled == Harris /\ call.input = Tensor(Example7x7)

ExampleResponse ==
  << << [i \in 1..7 |-> [j \in 1..7 |->
          IF i \in {2, 6} /\ j \in {2, 6} THEN One ELSE Zero]] >> >>

\* unchanged by the transposition and by the two mirror images, which
\* generate the symmetries of the square
SquareSymmetric(m) ==
  \A i \in 1..7 : \A j \in 1..7 :
    m[i][j] = m[j][i] /\ m[i][j] = m[8 - i][j] /\ m[i][j] = m[i][8 - j]

\* C9 as stated, for whatever k: the response of the 7x7 example has the
\* symmetries of the square and is 1 at the four corners of the block,
\* 0 elsewhere
ExampleCornersAnyK ==
  (ExampleCalled /\ pc = "done") =>
    /\ err = "none"
    /\ SquareSymmetric(output[1][1])
    /\ output = ExampleResponse

\* C9 amended: the same for k in the conventional range [0.04, 0.06]
ExampleCorners ==
  (ExampleCalled /\ pc = "done" /\ call.k \in Conventional) =>
    /\ err = "none"
    /\ SquareSymmetric(output[1][1])
    /\ output = ExampleResponse

ExampleCornersWitness ==
  /\ ExampleCalled /\ pc = "done" /\ call.k = 4
  /\ output[1][1][2][2] = One /\ output[1][1][2][3] = Zero

\* the suppression with a 3x3 window whose reduction reads 0 outside the map
ZeroPadMax(m, i, j) ==
  SetMax({At0(m, y, x) : y \in (i - 1)..(i + 1), x \in (j - 1)..(j + 1)})

ZeroPadSuppressSlice(m) ==
  [i \in 1..Len(m) |-> [j \in 1..Len(m[1]) |->
    IF m[i][j] = ZeroPadMax(m, i, j) THEN m[i][j] ELSE 0]]

ZeroPadSuppress(x) ==
  [b \in 1..Len(x) |-> [c \in 1..Len(x[b]) |-> ZeroPadSuppressSlice(x[b][c])]]

\* C10: the map the pipeline suppresses has no value below 1e-6, and on
\* every map without a negative value the 3x3 suppression returns what a
\* zero padded one returns, a border cell being masked only below a
\* strictly larger cell of the map
PaddingHarmless ==
  (nms_out # None /\ call.kernel_size = <<HarrisWindow, HarrisWindow>>) =>
    /\ Harris => \A v \in Values4(nms_in) : v >= ClampMin
    /\ (\A v \in Values4(nms_in) : v >= 0) =>
         /\ nms_out = ZeroPadSuppress(nms_in)
         /\ \A s \in Slices(nms_in) :
              LET m == nms_in[s[1]][s[2]] IN
              \A p \in Cells(m) :
                (OnBorder(m, p) /\ x_mask[s[1]][s[2]][p[1]][p[2]] = 0)
                  => \E q \in Around(m, p) : m[q[1]][q[2]] > m[p[1]][p[2]]

\* in the pipeline, a border cell at the floor is kept and another border
\* cell is masked
PaddingHarmlessWitness ==
  /\ Harris /\ nms_out # None
  /\ \E s \in Slices(nms_in) :
       LET m == nms_in[s[1]][s[2]] IN
       /\ \E p \in Cells(m) :
            /\ OnBorder(m, p) /\ m[p[1]][p[2]] = ClampMin
            /\ x_mask[s[1]][s[2]][p[1]][p[2]] = 1
       /\ \E p \in Cells(m) :
            OnBorder(m, p) /\ x_mask[s[1]][s[2]][p[1]][p[2]] = 0

\* the window centred on i along one axis, clipped to the map; an even
\* extent reaches one cell further to the right
Centred(i, n, k) ==
  {y \in (i - (k - 1) \div 2)..(i + k \div 2) : y >= 1 /\ y <= n}

CentredMax(m, p, kernel_size) ==
  SetMax({m[y][x] : y \in Centred(p[1], Len(m), kernel_size[1]),
                    x \in Centred(p[2], Len(m[1]), kernel_size[2])})

Exact(m, out, kernel_size) ==
  \A p \in Cells(m) :
    out[p[1]][p[2]] =
      IF m[p[1]][p[2]] = CentredMax(m, p, kernel_size)
      THEN m[p[1]][p[2]] ELSE 0

NmsReturned == Nms /\ WellFormed /\ pc = "done"

\* C2: for every map and window the suppression returns the value of each
\* cell that equals the maximum of the window centred on it, and 0 at
\* every other cell
SuppressionExact ==
  NmsReturned =>
    /\ err = "none"
    /\ Shape4(nms_out) = call.input.shape
    /\ Exact(call.input.data[1][1], nms_out[1][1], call.kernel_size)

\* the part of C2 that the code meets: windows of odd extent on both axes
SuppressionExactOdd ==
  (NmsReturned /\ call.kernel_size[1] % 2 = 1 /\ call.kernel_size[2] % 2 = 1)
    => /\ err = "none"
       /\ Shape4(nms_out) = call.input.shape
       /\ Exact(call.input.data[1][1], nms_out[1][1], call.kernel_size)

\* C4: every window of positive extents, odd or even, is accepted and the
\* map returned has the shape of the input
EvenWindowAccepted ==
  NmsReturned => err = "none" /\ Shape4(nms_out) = call.input.shape

\* C3 as stated: a second pass returns what the first returned, whatever
\* the values of the map
IdempotentAnyValues == (Nms /\ pc = "twice") => nms_twice = nms_out

\* C3 amended: on a map without a negative value a second pass ends as the
\* first did, with the same map or, if the first raised, the same error
IdempotentNonNegative ==
  (Nms /\ pc = "twice" /\ \A v \in Values4(call.input.data) : v >= 0) =>
    /\ nms_twice = nms_out
    /\ (nms_out # None) = (err = "none")

\* a plateau of two equal maxima side by side survived both passes, next
\* to a positive cell that the first pass masked
IdempotentWitness ==
  /\ Nms /\ pc = "twice" /\ err = "none"
  /\ \A v \in Values4(call.input.data) : v >= 0
  /\ LET m == call.input.data[1][1] IN
     \E p \in Cells(m) : \E q \in Cells(m) :
       /\ q = <<p[1], p[2] + 1>>
       /\ m[p[1]][p[2]] = 2 /\ m[q[1]][q[2]] = 2
       /\ nms_twice[1][1][p[1]][p[2]] = 2 /\ nms_twice[1][1][q[1]][q[2]] = 2
       /\ \E r \in Cells(m) : m[r[1]][r[2]] = 1 /\ nms_out[1][1][r[1]][r[2]] = 0

====
